---------------------------- MODULE Spec2Model ----------------------------
(***************************************************************************)
(* A model of the `feedback` crate: the decoder `parse` (src/src/parse.rs), *)
(* the encoders `send_wheels`, `send_led`, `send_arm` of RoverController    *)
(* (src/src/send.rs) and the Checksum trait (src/src/checksum.rs).          *)
(*                                                                         *)
(* Bytes are the integers 0..255.  A slice is a sequence of bytes; the     *)
(* source's 0-based index i is position i+1 of the sequence.  An f64 is    *)
(* its 64-bit pattern, written as 8 bytes from the most significant (sign  *)
(* and exponent) to the least significant.                                 *)
(*                                                                         *)
(* parse.rs, send.rs and checksum.rs use a Wheels of two speeds (`left`,   *)
(* `right`) and a checksum, built by a two-argument `Wheels::new`; the     *)
(* lib.rs at hand declares a six-wheel struct of another revision.  The    *)
(* model follows the three files that agree, and takes the two-argument    *)
(* constructor from the specification (section 4.1).                       *)
(***************************************************************************)
EXTENDS Integers, Sequences, FiniteSets, TLC

VARIABLES
    pc,          \* "idle": no call in progress; "send": a send_* call is at
                 \* its `socket.send(..).await`; "done": the call has returned
                 \* and the caller holds what it returned
    op,          \* the function of the current (or last) call
    parse_input, \* parse: the slice `input` passed in
    parse_result,\* parse: the value returned
    value,       \* send_* / is_checksum_correct: the struct passed in
    message,     \* send_*: the local buffer `message`
    validation,  \* send_*: what the self-check parse(message) returned
    handed,      \* send_*: the buffers given to socket.send by this call
    ret,         \* send_*: the SendResult returned
    verdict,     \* is_checksum_correct: the bool returned
    target_endian, \* the byte order of the build's target: "little" or "big"
    prev,        \* the input and the result of the caller's previous parse call
    tasks,       \* concurrent callers: the locals of each task's current call
    wire         \* concurrent callers: the datagrams handed to the shared socket
                 \* by calls that have not returned yet, in the order handed

\* What the calls of one sequential caller leave alone.
rest == <<target_endian, prev, tasks, wire>>

vars == <<pc, op, parse_input, parse_result, value, message, validation, handed,
          ret, verdict, rest>>

----------------------------------------------------------------------------
(* Bounds of the model *)

\* Inputs of parse have 0..MaxLen bytes.
MaxLen == 74
\* Field values are drawn from the first NumBytes entries of SampleBytes.
NumBytes == 3
\* Payload fillings of parse inputs.
NumSeeds == 2

SampleBytes == <<0, 255, 128, 1, 126, 127, 2, 254>>
Samples == {SampleBytes[i] : i \in 1..NumBytes}
Seeds == 1..NumSeeds

\* u8
Byte == 0..255

----------------------------------------------------------------------------
(* Protocol constants, lib.rs *)

Wheels_SUBSYSTEM_BYTE == 1
Wheels_PART_BYTE == 1
Led_SUBSYSTEM_BYTE == 1
Led_PART_BYTE == 2
Arm_SUBSYSTEM_BYTE == 2
Science_SUBSYSTEM_BYTE == 3
Imu_SUBSYSTEM_BYTE == 4
\* const EXPECTED_LENGTH: u32 = 1 + (3 * 3 * 8);
EXPECTED_LENGTH == 1 + (3 * 3 * 8)

----------------------------------------------------------------------------
(* Values *)

None == [tag |-> "None"]

\* Result<_, _> and a panic (an out-of-bounds index) as tagged records.
Ok(m) == [tag |-> "Ok", msg |-> m]
Err(e) == [tag |-> "Err", err |-> e]
Panic == [tag |-> "Panic"]

\* enum ParsingError
ZeroLengthSlice == [kind |-> "ZeroLengthSlice"]
InvalidSubsystem(b) == [kind |-> "InvalidSubsystem", byte |-> b]
NoEboxPart == [kind |-> "NoEboxPart"]
LengthInconsistency(s, p, l, e) ==
    [kind |-> "LengthInconsistency", subsystem |-> s, part |-> p,
     length |-> l, expected_length |-> e]

\* declared, and returned by no code path
MalformedMessage == [kind |-> "MalformedMessage"]

\* enum SendError
MessageFailedValidation(e) == [kind |-> "MessageFailedValidation", err |-> e]
SocketError == [kind |-> "SocketError"]

\* The structs, as struct literals: every field is given by the caller.
WheelsOf(l, r, c) == [variant |-> "Wheels", left |-> l, right |-> r, checksum |-> c]
LedOf(r, g, b) == [variant |-> "Led", red |-> r, green |-> g, blue |-> b]
ArmOf(b, f, ba, wp, wr, cl, c) ==
    [variant |-> "Arm", bicep |-> b, forearm |-> f, base |-> ba,
     wrist_pitch |-> wp, wrist_roll |-> wr, claw |-> cl, checksum |-> c]
ScienceOf(ba, d, sa, t, cs, c) ==
    [variant |-> "Science", big_actuator |-> ba, drill |-> d,
     small_actuator |-> sa, test_tubes |-> t, camera_servo |-> cs,
     checksum |-> c]

----------------------------------------------------------------------------
(* checksum.rs *)

RECURSIVE SumSeq(_)
SumSeq(s) == IF s = <<>> THEN 0 ELSE s[1] + SumSeq(Tail(s))

\* fn to_checksum_array(&self)
to_checksum_array(self) ==
    CASE self.variant = "Wheels" -> <<self.left, self.right>>
      [] self.variant = "Arm" ->
            <<self.bicep, self.forearm, self.base, self.wrist_pitch,
              self.wrist_roll, self.claw>>
      [] self.variant = "Science" ->
            <<self.big_actuator, self.drill, self.small_actuator,
              self.test_tubes, self.camera_servo>>

\* A checksum that keeps seven bits of the sum.
checksum_7bit(self) == SumSeq(to_checksum_array(self)) % 128

\* fn checksum(&self): the bytes summed as u32, then `& 0xFF`.  The sum of at
\* most six bytes is at most 6 * 255, so the u32 accumulation never wraps.
checksum(self) == SumSeq(to_checksum_array(self)) % 256

\* fn is_checksum_correct(&self)
is_checksum_correct(self) == self.checksum = checksum(self)

\* u8::wrapping_add
wrapping_add(a, b) == (a + b) % 256

RECURSIVE WrappingSum(_)
WrappingSum(s) == IF s = <<>> THEN 0 ELSE wrapping_add(s[1], WrappingSum(Tail(s)))

\* The checksum-deriving constructors (specification, section 4.1): the
\* checksum is the 8-bit wraparound sum of the payload bytes.
Wheels_new(l, r) == WheelsOf(l, r, wrapping_add(l, r))
Arm_new(b, f, ba, wp, wr, cl) ==
    ArmOf(b, f, ba, wp, wr, cl, WrappingSum(<<b, f, ba, wp, wr, cl>>))
Science_new(ba, d, sa, t, cs) ==
    ScienceOf(ba, d, sa, t, cs, WrappingSum(<<ba, d, sa, t, cs>>))

----------------------------------------------------------------------------
(* parse.rs *)

\* input[i], 0-based
At(input, i) == input[i + 1]

\* Whether every index of idxs is inside the slice; an index outside panics.
InBounds(input, idxs) == \A i \in idxs : i < Len(input)

\* `input.len() as u32`.  Every length of the model is far below 2^32, where
\* the cast is the identity.
as_u32(n) == n

\* input[a..b].try_into().unwrap(): the bytes at indices a .. b-1
Slice(input, a, b) == [k \in 1..(b - a) |-> At(input, a + k - 1)]

Reverse(s) == [k \in 1..Len(s) |-> s[Len(s) + 1 - k]]

\* f64::from_ne_bytes: the bytes in the target's memory order; on a
\* little-endian target the first byte is the least significant.
from_ne_bytes(bytes) ==
    IF target_endian = "little" THEN Reverse(bytes) ELSE bytes

\* f64::to_ne_bytes
to_ne_bytes(x) == IF target_endian = "little" THEN Reverse(x) ELSE x

\* check_length that reports the two lengths in each other's place.
check_length_swapped(input_len, subsystem, part, expected) ==
    IF input_len # expected
    THEN Err(LengthInconsistency(subsystem, part, expected, input_len))
    ELSE Ok(<<>>)

\* check_length that only rejects inputs that are too long.
check_length_atmost(input_len, subsystem, part, expected) ==
    IF input_len > expected
    THEN Err(LengthInconsistency(subsystem, part, input_len, expected))
    ELSE Ok(<<>>)

\* const fn check_length(input_len, subsystem, part, expected)
check_length(input_len, subsystem, part, expected) ==
    IF input_len # expected
    THEN Err(LengthInconsistency(subsystem, part, input_len, expected))
    ELSE Ok(<<>>)

\* Part::Wheels arm of the part match
parse_wheels(input, subsystem, part) ==
    LET chk == check_length(as_u32(Len(input)), subsystem, part, 5) IN
    IF chk.tag # "Ok" THEN chk
    ELSE IF ~InBounds(input, {2, 3}) THEN Panic
    ELSE Ok(Wheels_new(At(input, 2), At(input, 3)))

\* Led arm of the part match
parse_led(input, subsystem, part) ==
    LET chk == check_length(as_u32(Len(input)), subsystem, part, 5) IN
    IF chk.tag # "Ok" THEN chk
    ELSE IF ~InBounds(input, {2, 3, 4}) THEN Panic
    ELSE Ok(LedOf(At(input, 2), At(input, 3), At(input, 4)))

\* The 0x01 arm with the length checked before the part byte is matched.
parse_ebox_length_first(input, subsystem) ==
    IF as_u32(Len(input)) < 2 THEN Err(NoEboxPart)
    ELSE LET part == At(input, 1)
             chk == check_length(as_u32(Len(input)), subsystem, part, 5) IN
         IF chk.tag # "Ok" THEN chk
         ELSE CASE part = Wheels_PART_BYTE -> parse_wheels(input, subsystem, part)
                [] part = Led_PART_BYTE -> parse_led(input, subsystem, part)
                [] OTHER -> Err(InvalidSubsystem(part))

\* The 0x01 arm asking for the part byte with `input_len <= 2`.
parse_ebox_off_by_one(input, subsystem) ==
    IF as_u32(Len(input)) <= 2 THEN Err(NoEboxPart)
    ELSE LET part == At(input, 1) IN
         CASE part = Wheels_PART_BYTE -> parse_wheels(input, subsystem, part)
           [] part = Led_PART_BYTE -> parse_led(input, subsystem, part)
           [] OTHER -> Err(InvalidSubsystem(part))

\* Wheels::SUBSYSTEM_BYTE arm of the subsystem match
parse_ebox(input, subsystem) ==
    IF as_u32(Len(input)) < 2 THEN Err(NoEboxPart)
    ELSE IF ~InBounds(input, {1}) THEN Panic
    ELSE LET part == At(input, 1) IN
         CASE part = Wheels_PART_BYTE -> parse_wheels(input, subsystem, part)
           [] part = Led_PART_BYTE -> parse_led(input, subsystem, part)
           [] OTHER -> Err(InvalidSubsystem(part))

\* Arm::SUBSYSTEM_BYTE arm
parse_arm(input, subsystem) ==
    LET chk == check_length(as_u32(Len(input)), subsystem, 0, 8) IN
    IF chk.tag # "Ok" THEN chk
    ELSE IF ~InBounds(input, 1..7) THEN Panic
    ELSE Ok(ArmOf(At(input, 1), At(input, 2), At(input, 3), At(input, 4),
                  At(input, 5), At(input, 6), At(input, 7)))

\* Science::SUBSYSTEM_BYTE arm
parse_science(input, subsystem) ==
    LET chk == check_length(as_u32(Len(input)), subsystem, 0, 7) IN
    IF chk.tag # "Ok" THEN chk
    ELSE IF ~InBounds(input, 1..6) THEN Panic
    ELSE Ok(ScienceOf(At(input, 1), At(input, 2), At(input, 3), At(input, 4),
                      At(input, 5), At(input, 6)))

\* The Imu arm with accel_y and accel_z read from each other's bytes.
parse_imu_swapped(input, subsystem) ==
    LET chk == check_length(as_u32(Len(input)), subsystem, 0, EXPECTED_LENGTH) IN
    IF chk.tag # "Ok" THEN chk
    ELSE IF ~InBounds(input, 1..72) THEN Panic
    ELSE Ok([variant |-> "Imu",
             accel_x |-> from_ne_bytes(Slice(input, 1, 9)),
             accel_y |-> from_ne_bytes(Slice(input, 17, 25)),
             accel_z |-> from_ne_bytes(Slice(input, 9, 17)),
             gyro_x |-> from_ne_bytes(Slice(input, 25, 33)),
             gyro_y |-> from_ne_bytes(Slice(input, 33, 41)),
             gyro_z |-> from_ne_bytes(Slice(input, 41, 49)),
             compass_x |-> from_ne_bytes(Slice(input, 49, 57)),
             compass_y |-> from_ne_bytes(Slice(input, 57, 65)),
             compass_z |-> from_ne_bytes(Slice(input, 65, 73)),
             temp_c |-> "0.0"])

\* Imu::SUBSYSTEM_BYTE arm; temp_c is the constant 0.0
parse_imu(input, subsystem) ==
    LET chk == check_length(as_u32(Len(input)), subsystem, 0, EXPECTED_LENGTH) IN
    IF chk.tag # "Ok" THEN chk
    ELSE IF ~InBounds(input, 1..72) THEN Panic
    ELSE Ok([variant |-> "Imu",
             accel_x |-> from_ne_bytes(Slice(input, 1, 9)),
             accel_y |-> from_ne_bytes(Slice(input, 9, 17)),
             accel_z |-> from_ne_bytes(Slice(input, 17, 25)),
             gyro_x |-> from_ne_bytes(Slice(input, 25, 33)),
             gyro_y |-> from_ne_bytes(Slice(input, 33, 41)),
             gyro_z |-> from_ne_bytes(Slice(input, 41, 49)),
             compass_x |-> from_ne_bytes(Slice(input, 49, 57)),
             compass_y |-> from_ne_bytes(Slice(input, 57, 65)),
             compass_z |-> from_ne_bytes(Slice(input, 65, 73)),
             temp_c |-> "0.0"])

\* pub fn parse(input: &[u8]) -> Result<Message, ParsingError>
parse(input) ==
    LET input_len == as_u32(Len(input)) IN
    IF input_len < 1 THEN Err(ZeroLengthSlice)
    ELSE IF ~InBounds(input, {0}) THEN Panic
    ELSE LET subsystem == At(input, 0) IN
         CASE subsystem = Wheels_SUBSYSTEM_BYTE -> parse_ebox(input, subsystem)
           [] subsystem = Arm_SUBSYSTEM_BYTE -> parse_arm(input, subsystem)
           [] subsystem = Science_SUBSYSTEM_BYTE -> parse_science(input, subsystem)
           [] subsystem = Imu_SUBSYSTEM_BYTE -> parse_imu(input, subsystem)
           [] OTHER -> Err(InvalidSubsystem(subsystem))

----------------------------------------------------------------------------
(* send.rs *)

\* send_arm's buffer without the checksum byte.
arm_message_short(arm) ==
    <<Arm_SUBSYSTEM_BYTE, arm.bicep, arm.forearm, arm.base, arm.wrist_pitch,
      arm.wrist_roll, arm.claw>>

\* send_led's buffer with green and blue in each other's place.
led_message_swapped(lights) ==
    <<Led_SUBSYSTEM_BYTE, Led_PART_BYTE, lights.red, lights.blue, lights.green>>

\* send_wheels: `let mut message: [u8; 5]` as filled in before the self-check
wheels_message(wheels) ==
    <<Wheels_SUBSYSTEM_BYTE, Wheels_PART_BYTE, wheels.left, wheels.right,
      wheels.checksum>>

\* send_led: `let mut message: [u8; 5]`
led_message(lights) ==
    <<Led_SUBSYSTEM_BYTE, Led_PART_BYTE, lights.red, lights.green, lights.blue>>

\* send_arm: `let mut message: [u8; 8]`
arm_message(arm) ==
    <<Arm_SUBSYSTEM_BYTE, arm.bicep, arm.forearm, arm.base, arm.wrist_pitch,
      arm.wrist_roll, arm.claw, arm.checksum>>

----------------------------------------------------------------------------
(* The arguments the calls are made with *)

\* The byte at 0-based index i >= 2 of a parse input: distinct at distinct
\* indices, so that a field read from the wrong offset shows.
Fill(seed, i) == (53 * seed + 7 * i) % 256

Input(b0, b1, len, seed) ==
    [i \in 1..len |-> IF i = 1 THEN b0 ELSE IF i = 2 THEN b1 ELSE Fill(seed, i - 1)]

\* The second bytes tried after first byte b0: every byte after the shared
\* wheels/led subsystem byte, where it is the part byte; elsewhere it is
\* payload like the bytes that follow it.
SecondBytes(b0, seed) ==
    IF b0 = Wheels_SUBSYSTEM_BYTE THEN Byte ELSE {Fill(seed, 1)}

\* The checksum bytes a caller gives a struct with the given payload: any
\* sampled byte (a struct literal), or the one the checksum-deriving
\* constructor computes.
Checksums(payload) == Samples \cup {WrappingSum(payload)}

\* Whether v is what the checksum-deriving constructor builds from v's payload.
IsDerived(v) ==
    CASE v.variant = "Wheels" -> v = Wheels_new(v.left, v.right)
      [] v.variant = "Arm" ->
            v = Arm_new(v.bicep, v.forearm, v.base, v.wrist_pitch,
                        v.wrist_roll, v.claw)
      [] v.variant = "Science" ->
            v = Science_new(v.big_actuator, v.drill, v.small_actuator,
                            v.test_tubes, v.camera_servo)

----------------------------------------------------------------------------
(* Concurrent callers *)

\* The number of tasks that share one RoverController and call parse.
NumTasks == 2

Tasks == 1..NumTasks

\* The locals of a task that is in no call.
IdleTask ==
    [pc |-> "idle", op |-> "none", input |-> <<>>, result |-> None,
     value |-> None, message |-> <<>>, validation |-> None, ret |-> None]

----------------------------------------------------------------------------
(* The state machine *)

Init ==
    /\ pc = "idle"
    /\ op = "none"
    /\ parse_input = <<>>
    /\ parse_result = None
    /\ value = None
    /\ message = <<>>
    /\ validation = None
    /\ handed = <<>>
    /\ ret = None
    /\ verdict = None
    /\ target_endian \in {"little", "big"}
    /\ prev = None
    /\ tasks = [t \in Tasks |-> IdleTask]
    /\ wire = <<>>

\* A call of parse(input): it runs to its return without suspending.
parse_call ==
    /\ pc = "idle"
    /\ \E b0 \in Byte, len \in 0..MaxLen, seed \in Seeds :
        \E b1 \in SecondBytes(b0, seed) :
            /\ parse_input' = Input(b0, b1, len, seed)
            /\ parse_result' = parse(Input(b0, b1, len, seed))
    /\ op' = "parse"
    /\ pc' = "done"
    /\ UNCHANGED <<value, message, validation, handed, ret, verdict, rest>>

\* self.is_checksum_correct() returns to the caller.
Check(self) ==
    /\ value' = self
    /\ verdict' = is_checksum_correct(self)
    /\ op' = "is_checksum_correct"
    /\ pc' = "done"
    /\ UNCHANGED <<parse_input, parse_result, message, validation, handed, ret,
                   rest>>

\* A call of is_checksum_correct() on a Wheels, Arm or Science, built by a
\* struct literal or by a checksum-deriving constructor.
is_checksum_correct_call ==
    /\ pc = "idle"
    /\ \/ \E l \in Samples, r \in Samples :
            \E c \in Checksums(<<l, r>>) : Check(WheelsOf(l, r, c))
       \/ \E b \in Samples, f \in Samples, ba \in Samples, wp \in Samples,
             wr \in Samples, cl \in Samples :
            \E c \in Checksums(<<b, f, ba, wp, wr, cl>>) :
                Check(ArmOf(b, f, ba, wp, wr, cl, c))
       \/ \E ba \in Samples, d \in Samples, sa \in Samples, t \in Samples,
             cs \in Samples :
            \E c \in Checksums(<<ba, d, sa, t, cs>>) :
                Check(ScienceOf(ba, d, sa, t, cs, c))

\* A send_* call up to its first suspension point: the buffer is filled in,
\* parse runs over it, and `?` returns the error, or the call goes on to
\* `self.socket.send(&message).await`.
Begin(fn, v, buf) ==
    /\ op' = fn
    /\ value' = v
    /\ message' = buf
    /\ validation' = parse(buf)
    /\ handed' = <<>>
    /\ IF parse(buf).tag = "Ok"
       THEN pc' = "send" /\ ret' = None
       ELSE /\ pc' = "done"
            /\ ret' = IF parse(buf).tag = "Err"
                      THEN Err(MessageFailedValidation(parse(buf).err))
                      ELSE Panic
    /\ UNCHANGED <<parse_input, parse_result, verdict, rest>>

\* pub async fn send_wheels(&self, wheels: &Wheels)
send_wheels ==
    /\ pc = "idle"
    /\ \E l \in Samples, r \in Samples, c \in Samples :
        Begin("send_wheels", WheelsOf(l, r, c), wheels_message(WheelsOf(l, r, c)))

\* pub async fn send_led(&self, lights: &Led)
send_led ==
    /\ pc = "idle"
    /\ \E r \in Samples, g \in Samples, b \in Samples :
        Begin("send_led", LedOf(r, g, b), led_message(LedOf(r, g, b)))

\* pub async fn send_arm(&self, arm: &Arm)
send_arm ==
    /\ pc = "idle"
    /\ \E b \in Samples, f \in Samples, ba \in Samples, wp \in Samples,
          wr \in Samples, cl \in Samples, c \in Samples :
        Begin("send_arm", ArmOf(b, f, ba, wp, wr, cl, c),
              arm_message(ArmOf(b, f, ba, wp, wr, cl, c)))

\* socket.send that is tried again when it fails.
socket_send_retry ==
    /\ pc = "send"
    /\ Len(handed) < 3
    /\ handed' = Append(handed, message)
    /\ \E sent \in BOOLEAN :
        IF sent THEN pc' = "done" /\ ret' = Ok(<<>>)
        ELSE pc' = "send" /\ ret' = None
    /\ UNCHANGED <<op, parse_input, parse_result, value, message, validation,
                   verdict, rest>>

\* socket.send whose io::Error is reported as a failed validation.
socket_send_conflated ==
    /\ pc = "send"
    /\ handed' = Append(handed, message)
    /\ \E sent \in BOOLEAN :
        ret' = IF sent THEN Ok(<<>>)
               ELSE Err(MessageFailedValidation(MalformedMessage))
    /\ pc' = "done"
    /\ UNCHANGED <<op, parse_input, parse_result, value, message, validation,
                   verdict, rest>>

\* self.socket.send(&message).await and the return of its outcome: the socket
\* takes the buffer, and the send succeeds or fails with an io::Error.
socket_send ==
    /\ pc = "send"
    /\ handed' = Append(handed, message)
    /\ \E sent \in BOOLEAN :
        ret' = IF sent THEN Ok(<<>>) ELSE Err(SocketError)
    /\ pc' = "done"
    /\ UNCHANGED <<op, parse_input, parse_result, value, message, validation,
                   verdict, rest>>

\* The caller takes what the call returned; the call's frame is gone.
return ==
    /\ pc = "done"
    /\ pc' = "idle"
    /\ op' = "none"
    /\ parse_input' = <<>>
    /\ parse_result' = None
    /\ value' = None
    /\ message' = <<>>
    /\ validation' = None
    /\ handed' = <<>>
    /\ ret' = None
    /\ verdict' = None
    /\ UNCHANGED rest

Next ==
    \/ parse_call
    \/ is_checksum_correct_call
    \/ send_wheels
    \/ send_led
    \/ send_arm
    \/ socket_send
    \/ return

Spec == Init /\ [][Next]_vars

----------------------------------------------------------------------------
(* A caller that decodes one slice after another *)

\* The first bytes tried are 0..MaxHead.
MaxHead == 5

\* No byte, the subsystem byte alone, and the fixed totals of wheels and led,
\* of arm and of imu (each a wrong length for the other variants).
DecodeLens == {0, 1, 5, 8, EXPECTED_LENGTH}

\* A decode that keeps returning the error of the failed call before it.
decode_call_sticky ==
    /\ pc \in {"idle", "done"}
    /\ op \in {"none", "parse"}
    /\ prev' = IF op = "parse"
               THEN [input |-> parse_input, result |-> parse_result]
               ELSE None
    /\ \E b0 \in 0..MaxHead, b1 \in 1..3, len \in DecodeLens :
        /\ parse_input' = Input(b0, b1, len, 1)
        /\ parse_result' = IF op = "parse" /\ parse_result.tag = "Err"
                           THEN parse_result
                           ELSE parse(Input(b0, b1, len, 1))
    /\ op' = "parse"
    /\ pc' = "done"
    /\ UNCHANGED <<value, message, validation, handed, ret, verdict,
                   target_endian, tasks, wire>>

\* A call of parse(input) by a caller that may hold the result of its
\* previous parse call, failed or not.  parse takes the slice and nothing
\* else, and writes nothing but its return value.
decode_call ==
    /\ pc \in {"idle", "done"}
    /\ op \in {"none", "parse"}
    /\ prev' = IF op = "parse"
               THEN [input |-> parse_input, result |-> parse_result]
               ELSE None
    /\ \E b0 \in 0..MaxHead, b1 \in 1..3, len \in DecodeLens :
        /\ parse_input' = Input(b0, b1, len, 1)
        /\ parse_result' = parse(Input(b0, b1, len, 1))
    /\ op' = "parse"
    /\ pc' = "done"
    /\ UNCHANGED <<value, message, validation, handed, ret, verdict,
                   target_endian, tasks, wire>>

NextDecode == decode_call

SpecDecode == Init /\ [][NextDecode]_vars

----------------------------------------------------------------------------
(* Tasks calling parse and send_* on one shared RoverController.  A call's
   `input`, `message` and results are locals of its own future; the tasks
   share `&self`, that is the socket.  A send_* call suspends only at
   `socket.send(&message).await`; parse never suspends. *)

seq == <<pc, op, parse_input, parse_result, value, message, validation, handed,
         ret, verdict, target_endian, prev>>

\* The field values the tasks pass.
ConcBytes == {0, 255}

\* The slices the tasks decode.
ConcInputs == {<<>>, <<1>>, <<9>>, <<1, 2, 255, 0, 0>>}

\* A buffer kept in the controller and shared by the calls: the bytes sent are
\* those another call in progress has written, when there is one.
SentBytes_shared(t) ==
    LET others == {u \in Tasks : u # t /\ tasks[u].message # <<>>} IN
    IF others = {} THEN tasks[t].message
    ELSE tasks[CHOOSE u \in others : TRUE].message

\* `&message` of socket.send(&message): the call's own local array
SentBytes(t) == tasks[t].message

\* Task t calls parse(input), which runs to its return.
conc_parse(t) ==
    /\ tasks[t].pc = "idle"
    /\ \E in \in ConcInputs :
        tasks' = [tasks EXCEPT ![t] =
                    [IdleTask EXCEPT !.pc = "done", !.op = "parse",
                                     !.input = in, !.result = parse(in)]]
    /\ UNCHANGED <<wire, seq>>

\* Task t runs a send_* call up to its suspension at socket.send.
ConcBegin(t, fn, v, buf) ==
    /\ tasks' = [tasks EXCEPT ![t] =
        [IdleTask EXCEPT
            !.op = fn, !.value = v, !.message = buf, !.validation = parse(buf),
            !.pc = IF parse(buf).tag = "Ok" THEN "send" ELSE "done",
            !.ret = IF parse(buf).tag = "Ok" THEN None
                    ELSE IF parse(buf).tag = "Err"
                    THEN Err(MessageFailedValidation(parse(buf).err))
                    ELSE Panic]]
    /\ UNCHANGED <<wire, seq>>

conc_send_wheels(t) ==
    /\ tasks[t].pc = "idle"
    /\ \E l \in ConcBytes, c \in ConcBytes :
        ConcBegin(t, "send_wheels", WheelsOf(l, 126, c),
                  wheels_message(WheelsOf(l, 126, c)))

conc_send_led(t) ==
    /\ tasks[t].pc = "idle"
    /\ \E r \in ConcBytes :
        ConcBegin(t, "send_led", LedOf(r, 0, 0), led_message(LedOf(r, 0, 0)))

conc_send_arm(t) ==
    /\ tasks[t].pc = "idle"
    /\ \E b \in ConcBytes, c \in ConcBytes :
        ConcBegin(t, "send_arm", ArmOf(b, 126, 126, 126, 126, 126, c),
                  arm_message(ArmOf(b, 126, 126, 126, 126, 126, c)))

\* Task t's socket.send(&message) completes: the socket takes one datagram,
\* the whole buffer, and the send succeeds or fails.
conc_socket_send(t) ==
    /\ tasks[t].pc = "send"
    /\ wire' = Append(wire, [by |-> t, of |-> tasks[t].value,
                             bytes |-> SentBytes(t)])
    /\ \E sent \in BOOLEAN :
        tasks' = [tasks EXCEPT ![t].pc = "done",
                               ![t].ret = IF sent THEN Ok(<<>>)
                                          ELSE Err(SocketError)]
    /\ UNCHANGED seq

\* Task t's caller takes what the call returned; its datagram has left.
conc_return(t) ==
    /\ tasks[t].pc = "done"
    /\ tasks' = [tasks EXCEPT ![t] = IdleTask]
    /\ wire' = SelectSeq(wire, LAMBDA d : d.by # t)
    /\ UNCHANGED seq

NextConc ==
    \E t \in Tasks :
        \/ conc_parse(t)
        \/ conc_send_wheels(t)
        \/ conc_send_led(t)
        \/ conc_send_arm(t)
        \/ conc_socket_send(t)
        \/ conc_return(t)

SpecConc == Init /\ [][NextConc]_vars

----------------------------------------------------------------------------
(* Properties *)

SendOps == {"send_wheels", "send_led", "send_arm"}

\* The state holds a send_* call that has built and checked its buffer.
InSend == op \in SendOps /\ pc \in {"send", "done"}

\* The state holds a parse call that has returned.
Parsed == op = "parse" /\ pc = "done"

\* C1: decoding the buffer the encoder writes for a message gives back that
\* message, field for field, the checksum field included.
RoundTrip == InSend => parse(message) = Ok(value)

\* C2: the buffer send_wheels, send_led and send_arm build is accepted by
\* parse, whatever the fields and the checksum are, and the call never
\* returns MessageFailedValidation.
SelfCheckNeverFails ==
    InSend =>
        /\ parse(message).tag = "Ok"
        /\ validation.tag = "Ok"
        /\ ~(ret.tag = "Err" /\ ret.err.kind = "MessageFailedValidation")

\* C2 witness: send_arm has returned Ok for an Arm whose checksum field is not
\* the sum of its payload.
SelfCheckNeverFails_witness ==
    /\ op = "send_arm" /\ pc = "done"
    /\ ~is_checksum_correct(value)
    /\ validation.tag = "Ok"
    /\ ret = Ok(<<>>)

\* C3: the socket is handed a buffer only by a call whose self-check returned
\* Ok, the buffer handed is the buffer that was checked, a call hands over at
\* most one buffer, and a call that returns MessageFailedValidation has
\* handed over nothing.
SelfCheckGatesSend ==
    /\ [](handed # <<>> =>
            /\ handed = <<message>>
            /\ validation = parse(message)
            /\ validation.tag = "Ok")
    /\ []((ret.tag = "Err" /\ ret.err.kind = "MessageFailedValidation")
            => handed = <<>>)
    /\ [][handed' # handed /\ handed' # <<>> =>
            /\ pc = "send"
            /\ validation.tag = "Ok"
            /\ handed = <<>>
            /\ handed' = <<message>>]_vars

\* C3 witness: a send_wheels call whose one send attempt failed has returned
\* SocketError, with the checked buffer handed over once.
SelfCheckGatesSend_witness ==
    /\ op = "send_wheels" /\ pc = "done"
    /\ ret = Err(SocketError)
    /\ handed = <<message>>
    /\ validation.tag = "Ok"

\* C4: a Wheels, Arm or Science that parse returns has a checksum field equal
\* to the sum of its payload bytes modulo 256.
DecodedChecksumCorrect ==
    (Parsed /\ parse_result.tag = "Ok"
        /\ parse_result.msg.variant \in {"Wheels", "Arm", "Science"})
    => is_checksum_correct(parse_result.msg)

\* The names of the payload fields of a checksummed struct, in the order of
\* its checksum array.
PayloadFields(v) ==
    CASE v.variant = "Wheels" -> <<"left", "right">>
      [] v.variant = "Arm" ->
            <<"bicep", "forearm", "base", "wrist_pitch", "wrist_roll", "claw">>
      [] v.variant = "Science" ->
            <<"big_actuator", "drill", "small_actuator", "test_tubes",
              "camera_servo">>

Recognized(in) ==
    /\ Len(in) >= 1
    /\ \/ in[1] \in {2, 3, 4}
       \/ in[1] = 1 /\ Len(in) >= 2 /\ in[2] \in {1, 2}

FixedTotal(in) ==
    CASE in[1] = 1 -> 5
      [] in[1] = 2 -> 8
      [] in[1] = 3 -> 7
      [] in[1] = 4 -> 73

PartOf(in) == IF in[1] = 1 THEN in[2] ELSE 0

VariantOf(in) ==
    CASE in[1] = 1 /\ in[2] = 1 -> "Wheels"
      [] in[1] = 1 /\ in[2] = 2 -> "Led"
      [] in[1] = 2 -> "Arm"
      [] in[1] = 3 -> "Science"
      [] in[1] = 4 -> "Imu"

EncodeLayout ==
    InSend =>
        /\ op = "send_led" =>
            /\ message = <<1, 2, value.red, value.green, value.blue>>
            /\ parse(message) = Ok(value)
        /\ op = "send_wheels" =>
            /\ Len(message) = 5
            /\ message[1] = 1 /\ message[2] = 1
            /\ parse(message).tag = "Ok"
            /\ parse(message).msg.variant = "Wheels"
            /\ parse(message).msg.left = value.left
            /\ parse(message).msg.right = value.right
            /\ message[Len(message)] = value.checksum
        /\ op = "send_arm" =>
            /\ Len(message) = 8
            /\ message[1] = 2
            /\ parse(message).tag = "Ok"
            /\ parse(message).msg.variant = "Arm"
            /\ \A f \in {"bicep", "forearm", "base", "wrist_pitch",
                         "wrist_roll", "claw"} :
                    parse(message).msg[f] = value[f]
            /\ message[Len(message)] = value.checksum

\* C10 witness: send_led has built [0x01, 0x02, 0xFF, 0x00, 0x00] for
\* Led{red: 255, green: 0, blue: 0}.
EncodeLayout_witness ==
    /\ op = "send_led" /\ pc = "done"
    /\ value = LedOf(255, 0, 0)
    /\ message = <<1, 2, 255, 0, 0>>
    /\ handed = <<message>>

\* The nine f64 fields of Imu, in the order of the wire.
ImuFields ==
    <<"accel_x", "accel_y", "accel_z", "gyro_x", "gyro_y", "gyro_z",
      "compass_x", "compass_y", "compass_z">>

\* input[1 + 8k .. 9 + 8k), the k-th group of 8 bytes after the subsystem byte
Group(in, k) == [j \in 1..8 |-> in[1 + 8 * k + j]]

\* C11: a 73-byte input starting with 0x04 decodes to an Imu whose k-th field
\* (accel x/y/z, gyro x/y/z, compass x/y/z) is the double whose native-order
\* bytes are input[1+8k .. 9+8k): writing the field back with to_ne_bytes
\* gives the same 8 bytes, for each of the nine fields.
ImuPositional ==
    (Parsed /\ Len(parse_input) = 73 /\ parse_input[1] = 4) =>
        /\ parse_result.tag = "Ok"
        /\ parse_result.msg.variant = "Imu"
        /\ \A k \in 0..8 :
            to_ne_bytes(parse_result.msg[ImuFields[k + 1]]) = Group(parse_input, k)

\* C11 witness: on a little-endian target an Imu has been decoded whose nine
\* fields come from nine different groups of bytes.
ImuPositional_witness ==
    /\ Parsed /\ Len(parse_input) = 73 /\ parse_input[1] = 4
    /\ target_endian = "little"
    /\ parse_result.tag = "Ok"
    /\ \A k \in 0..8 : \A m \in 0..8 :
        k # m => parse_result.msg[ImuFields[k + 1]] # parse_result.msg[ImuFields[m + 1]]
    /\ parse_result.msg.accel_x[8] = parse_input[2]

IsFailedValidation(r) == r.tag = "Err" /\ r.err.kind = "MessageFailedValidation"

\* C12: a send_* call returns exactly one of Ok, MessageFailedValidation and
\* SocketError.  MessageFailedValidation is returned exactly when the
\* self-check failed, wraps the self-check's ParsingError in the SendError
\* kind of its own, and comes with nothing handed to the socket; SocketError
\* and Ok are returned only for a buffer that passed the self-check and was
\* handed to the socket.
SendOutcomes ==
    /\ (InSend /\ pc = "send") => (ret = None /\ validation.tag = "Ok")
    /\ (InSend /\ pc = "done") =>
        /\ \/ ret = Ok(<<>>)
           \/ ret = Err(SocketError)
           \/ IsFailedValidation(ret)
        /\ IsFailedValidation(ret) <=> validation.tag = "Err"
        /\ IsFailedValidation(ret) =>
            (ret.err.err = validation.err /\ handed = <<>>)
        /\ ret \in {Ok(<<>>), Err(SocketError)} =>
            (validation.tag = "Ok" /\ handed = <<message>>)

\* C12 witness: send_arm has returned SocketError for a buffer that passed
\* the self-check.
SendOutcomes_witness ==
    /\ op = "send_arm" /\ pc = "done"
    /\ ret = Err(SocketError)
    /\ validation = parse(message)
    /\ validation.tag = "Ok"

\* C13: a decode failure is returned as one of ZeroLengthSlice,
\* InvalidSubsystem, NoEboxPart and LengthInconsistency, never as
\* MalformedMessage or a panic; and whatever the caller decoded before, failed
\* or not, a decode returns what decoding the same bytes first would return,
\* the same as before for the same bytes, and touches nothing else.
DecodeErrorsAreValues ==
    Parsed =>
        /\ parse_result.tag \in {"Ok", "Err"}
        /\ parse_result.tag = "Err" =>
            parse_result.err.kind \in
                {"ZeroLengthSlice", "InvalidSubsystem", "NoEboxPart",
                 "LengthInconsistency"}
        /\ parse_result = parse(parse_input)
        /\ (prev # None /\ prev.input = parse_input) => parse_result = prev.result
        /\ value = None /\ message = <<>> /\ validation = None
        /\ handed = <<>> /\ ret = None /\ verdict = None

\* C13 witness: after a decode that failed with LengthInconsistency, other
\* bytes have been decoded to a message.
DecodeErrorsAreValues_witness ==
    /\ Parsed
    /\ prev # None
    /\ prev.result.tag = "Err"
    /\ prev.result.err.kind = "LengthInconsistency"
    /\ prev.input # parse_input
    /\ parse_result.tag = "Ok"

\* The frame a send_* call run alone builds for the struct it is passed.
FrameOf(v) ==
    CASE v.variant = "Wheels" -> wheels_message(v)
      [] v.variant = "Led" -> led_message(v)
      [] v.variant = "Arm" -> arm_message(v)

\* The datagrams on the wire that task t's call handed over.
DatagramsBy(t) == SelectSeq(wire, LAMBDA d : d.by = t)

\* C14: under any interleaving of the tasks' calls, a parse call returns
\* what parse returns for its input alone; a send_* call has built and
\* checked the frame of the struct it was passed, returns Ok or SocketError,
\* and has handed the socket exactly one datagram, after its self-check; and
\* every datagram is, whole and unmixed, the frame of the struct its own
\* caller passed.
ConcurrentCalls ==
    /\ \A t \in Tasks :
        /\ (tasks[t].op = "parse" /\ tasks[t].pc = "done") =>
            tasks[t].result = parse(tasks[t].input)
        /\ (tasks[t].op \in SendOps /\ tasks[t].pc \in {"send", "done"}) =>
            /\ tasks[t].message = FrameOf(tasks[t].value)
            /\ tasks[t].validation = parse(FrameOf(tasks[t].value))
            /\ tasks[t].pc = "send" =>
                (tasks[t].ret = None /\ DatagramsBy(t) = <<>>)
            /\ tasks[t].pc = "done" =>
                /\ tasks[t].ret \in {Ok(<<>>), Err(SocketError)}
                /\ Len(DatagramsBy(t)) = 1
        /\ tasks[t].op \notin SendOps => DatagramsBy(t) = <<>>
    /\ \A i \in 1..Len(wire) :
        /\ wire[i].of = tasks[wire[i].by].value
        /\ wire[i].bytes = FrameOf(wire[i].of)

\* C14 witness: two tasks' send calls overlapped; the task that got its
\* datagram out second had different bytes in its buffer than the first, and
\* both have returned.
ConcurrentCalls_witness ==
    /\ Len(wire) = 2
    /\ wire[1].by = 2 /\ wire[2].by = 1
    /\ wire[1].bytes # wire[2].bytes
    /\ tasks[1].pc = "done" /\ tasks[2].pc = "done"
    /\ tasks[1].op = "send_arm" /\ tasks[2].op = "send_wheels"

=============================================================================
